---- MODULE Spec2Model ----
(***************************************************************************)
(* Season Radar: the scoring and ranking engine (src/scoring.py).          *)
(*                                                                         *)
(* Representation                                                          *)
(*   - A Python str that the code lowers or searches (a region, a country, *)
(*     a tag, an exclusion term) is a sequence of one-character strings,   *)
(*     so that lower() and the substring test `a in b` are computed, not   *)
(*     assumed; a str that is only compared (rain_tolerance,               *)
(*     crowd_preference, a dict key) is a TLA+ string.                     *)
(*   - None is the empty tuple, a present optional value v is <<v>>.       *)
(*   - A dict is a function whose DOMAIN is the set of keys present.       *)
(*   - A score (the float returned by round(x, 4)) is the integer K with   *)
(*     score = K / 10000.                                                  *)
(*   - Temperatures are whole degrees Celsius, precipitation whole mm.     *)
(*   - IEEE-754 doubles are kept exactly, as m * 2^e with m a natural of   *)
(*     at most 53 bits held in base-2^15 limbs (TLC integers are 32 bit).  *)
(***************************************************************************)
EXTENDS Integers, Sequences, FiniteSets, TLC

(***************************************************************************)
(* Natural numbers of any size: little-endian sequences of limbs in        *)
(* 0 .. LimbBase-1 without leading (high) zero limbs; zero is <<>>.        *)
(***************************************************************************)
LimbBits == 15
LimbBase == 2^LimbBits

RECURSIVE BigTrim(_)
BigTrim(a) ==
    IF a = <<>> THEN <<>>
    ELSE IF a[Len(a)] = 0 THEN BigTrim(SubSeq(a, 1, Len(a) - 1))
    ELSE a

BigFromInt(n) ==
    IF n = 0 THEN <<>>
    ELSE IF n < LimbBase THEN <<n>>
    ELSE IF n < LimbBase * LimbBase THEN <<n % LimbBase, n \div LimbBase>>
    ELSE <<n % LimbBase, (n \div LimbBase) % LimbBase, n \div (LimbBase * LimbBase)>>

\* Only used on values known to be below 2^30.
BigToInt(a) ==
    IF a = <<>> THEN 0
    ELSE IF Len(a) = 1 THEN a[1]
    ELSE a[1] + LimbBase * a[2]

RECURSIVE BigAddC(_, _, _)
BigAddC(a, b, c) ==
    IF a = <<>> /\ b = <<>> THEN (IF c = 0 THEN <<>> ELSE <<c>>)
    ELSE LET x == (IF a = <<>> THEN 0 ELSE Head(a))
                  + (IF b = <<>> THEN 0 ELSE Head(b)) + c
         IN  <<x % LimbBase>>
             \o BigAddC(IF a = <<>> THEN <<>> ELSE Tail(a),
                        IF b = <<>> THEN <<>> ELSE Tail(b),
                        x \div LimbBase)

BigAdd(a, b) == BigAddC(a, b, 0)

\* a - b for a >= b.
RECURSIVE BigSubC(_, _, _)
BigSubC(a, b, c) ==
    IF a = <<>> THEN <<>>
    ELSE LET x == Head(a) - (IF b = <<>> THEN 0 ELSE Head(b)) - c
         IN  <<IF x < 0 THEN x + LimbBase ELSE x>>
             \o BigSubC(Tail(a),
                        IF b = <<>> THEN <<>> ELSE Tail(b),
                        IF x < 0 THEN 1 ELSE 0)

BigSub(a, b) == BigTrim(BigSubC(a, b, 0))

\* -1, 0, 1 as a < b, a = b, a > b.
RECURSIVE BigCmpTop(_, _, _)
BigCmpTop(a, b, i) ==
    IF i = 0 THEN 0
    ELSE IF a[i] < b[i] THEN -1
    ELSE IF a[i] > b[i] THEN 1
    ELSE BigCmpTop(a, b, i - 1)

BigCmp(a, b) ==
    IF Len(a) < Len(b) THEN -1
    ELSE IF Len(a) > Len(b) THEN 1
    ELSE BigCmpTop(a, b, Len(a))

\* a * k for 0 <= k <= 2^16.
RECURSIVE BigMulSmallC(_, _, _)
BigMulSmallC(a, k, c) ==
    IF a = <<>> THEN BigFromInt(c)
    ELSE LET x == Head(a) * k + c
         IN  <<x % LimbBase>> \o BigMulSmallC(Tail(a), k, x \div LimbBase)

BigMulSmall(a, k) == IF k = 0 THEN <<>> ELSE BigMulSmallC(a, k, 0)

\* a * LimbBase^n.
BigShlLimbs(a, n) ==
    IF a = <<>> THEN <<>> ELSE [i \in 1..n |-> 0] \o a

RECURSIVE BigMul(_, _)
BigMul(a, b) ==
    IF a = <<>> \/ b = <<>> THEN <<>>
    ELSE BigAdd(BigMulSmall(a, Head(b)), BigShlLimbs(BigMul(a, Tail(b)), 1))

\* Quotient and remainder of a by k, 1 <= k < 2^16; the limbs are taken from
\* the top, r is the running remainder.
RECURSIVE BigDivSmallR(_, _, _, _)
BigDivSmallR(a, k, i, r) ==
    IF i = 0 THEN [q |-> <<>>, r |-> r]
    ELSE LET x    == r * LimbBase + a[i]
             rest == BigDivSmallR(a, k, i - 1, x % k)
         IN  [q |-> rest.q \o <<x \div k>>, r |-> rest.r]

BigDivSmall(a, k) ==
    LET d == BigDivSmallR(a, k, Len(a), 0)
    IN  [q |-> BigTrim(d.q), r |-> d.r]

\* a * 2^s and floor(a / 2^s).
BigShl(a, s) ==
    BigShlLimbs(BigMulSmall(a, 2^(s % LimbBits)), s \div LimbBits)

BigShr(a, s) ==
    LET n == s \div LimbBits
    IN  IF n >= Len(a) THEN <<>>
        ELSE BigDivSmall(SubSeq(a, n + 1, Len(a)), 2^(s % LimbBits)).q

RECURSIVE IntBitLen(_)
IntBitLen(n) == IF n = 0 THEN 0 ELSE 1 + IntBitLen(n \div 2)

BigBitLen(a) ==
    IF a = <<>> THEN 0 ELSE LimbBits * (Len(a) - 1) + IntBitLen(a[Len(a)])

BigIsOdd(a) == a # <<>> /\ a[1] % 2 = 1

\* floor-free rounding of a / 2^s to the nearest integer, ties to even; sticky
\* says that the true value lies strictly above a * 2^-s (a discarded tail).
BigRoundShr(a, s, sticky) ==
    IF s <= 0 THEN BigShl(a, 0 - s)
    ELSE LET q    == BigShr(a, s)
             r    == BigSub(a, BigShl(q, s))
             half == BigShl(<<1>>, s - 1)
             c    == BigCmp(r, half)
             up   == c = 1 \/ (c = 0 /\ (sticky \/ BigIsOdd(q)))
         IN  IF up THEN BigAdd(q, <<1>>) ELSE q

(***************************************************************************)
(* IEEE-754 binary64 values >= 0, kept exactly: [m |-> natural, e |-> Int] *)
(* is m * 2^e with m below 2^53.  Every operation computes the exact       *)
(* result and rounds it once, to nearest, ties to even, as the hardware    *)
(* does for the Python float operators + - * /.                            *)
(***************************************************************************)
MantissaBits == 53

\* The double nearest n * 2^e (sticky: the exact value lies strictly above).
Fl(n, e, sticky) ==
    LET len == BigBitLen(n)
    IN  IF len <= MantissaBits THEN [m |-> n, e |-> e]
        ELSE LET s == len - MantissaBits
                 q == BigRoundShr(n, s, sticky)
             IN  IF BigBitLen(q) > MantissaBits
                 THEN [m |-> BigShr(q, 1), e |-> e + s + 1]
                 ELSE [m |-> q, e |-> e + s]

FromInt(n) == [m |-> BigFromInt(n), e |-> 0]

IntMin(a, b) == IF a < b THEN a ELSE b

IntMax(a, b) == IF a > b THEN a ELSE b

IntAbs(a) == IF a < 0 THEN 0 - a ELSE a

FMul(x, y) == Fl(BigMul(x.m, y.m), x.e + y.e, FALSE)

FAdd(x, y) ==
    LET e == IntMin(x.e, y.e)
    IN  Fl(BigAdd(BigShl(x.m, x.e - e), BigShl(y.m, y.e - e)), e, FALSE)

\* x - y for x >= y.
FSub(x, y) ==
    LET e == IntMin(x.e, y.e)
    IN  Fl(BigSub(BigShl(x.m, x.e - e), BigShl(y.m, y.e - e)), e, FALSE)

\* -1, 0, 1 as x < y, x = y, x > y.
FCmp(x, y) ==
    LET e == IntMin(x.e, y.e)
    IN  BigCmp(BigShl(x.m, x.e - e), BigShl(y.m, y.e - e))

\* Python max(x, y) and min(x, y): the first argument unless the second is
\* strictly greater (smaller).
FMax(x, y) == IF FCmp(y, x) = 1 THEN y ELSE x

FMin(x, y) == IF FCmp(y, x) = -1 THEN y ELSE x

\* x / k for an integer 1 <= k < 2^16: the quotient is taken to 75 more bits
\* than x.m has and a non-zero remainder is kept as the sticky bit.
FDivInt(x, k) ==
    LET d == BigDivSmall(BigShl(x.m, 5 * LimbBits), k)
    IN  Fl(d.q, x.e - 5 * LimbBits, d.r # 0)

\* The double nearest the rational n / d: a decimal literal such as 0.15
\* (n = 15, d = 100), and the float that round(x, 4) returns (d = 10000).
FloatOfRatio(n, d) == FDivInt(FromInt(n), d)

\* round(x, 4) for a float x, as the integer K with result K / 10000: CPython
\* rounds the exact binary value of x correctly, ties to even.
Round4(x) ==
    BigToInt(BigRoundShr(BigMulSmall(x.m, 10000), 0 - x.e, FALSE))

\* The float a score K stands for.
ScoreFloat(K) == FloatOfRatio(K, 10000)

(***************************************************************************)
(* Python built-ins used by the engine.                                    *)
(***************************************************************************)
\* A local variable: Body applied to the value of v, with v evaluated once.
With(v, Body(_)) == CHOOSE r \in {Body(x) : x \in {v}} : TRUE

None == <<>>

Some(v) == <<v>>

\* dict.get(key, default) and dict.get(key).
Get(dict, key, default) == IF key \in DOMAIN dict THEN dict[key] ELSE default

GetOpt(dict, key) == IF key \in DOMAIN dict THEN Some(dict[key]) ELSE None

\* x in list.
InList(x, list) == \E i \in DOMAIN list : list[i] = x

\* str.lower() on ASCII letters.
UpperCase ==
    <<"A", "B", "C", "D", "E", "F", "G", "H", "I", "J", "K", "L", "M",
      "N", "O", "P", "Q", "R", "S", "T", "U", "V", "W", "X", "Y", "Z">>

LowerCase ==
    <<"a", "b", "c", "d", "e", "f", "g", "h", "i", "j", "k", "l", "m",
      "n", "o", "p", "q", "r", "s", "t", "u", "v", "w", "x", "y", "z">>

LowerChar(c) ==
    IF \E i \in DOMAIN UpperCase : UpperCase[i] = c
    THEN LowerCase[CHOOSE i \in DOMAIN UpperCase : UpperCase[i] = c]
    ELSE c

lower(str) == [i \in DOMAIN str |-> LowerChar(str[i])]

\* a in b for two str: a occurs in b as a contiguous substring (the empty
\* str occurs in every str).
InStr(a, b) ==
    \E i \in 0..(Len(b) - Len(a)) : SubSeq(b, i + 1, i + Len(a)) = a

\* list[i] with Python's negative indices; IndexError outside -len .. len-1.
IndexOk(list, i) == 0 - Len(list) <= i /\ i < Len(list)

Index(list, i) == IF i >= 0 THEN list[i + 1] ELSE list[Len(list) + i + 1]

\* list[:n + 1]: one entry too many.
SlicePrefixInclusive(list, n) ==
    IF n + 1 >= 0 THEN SubSeq(list, 1, IntMin(n + 1, Len(list)))
    ELSE SubSeq(list, 1, IntMax(Len(list) + n + 1, 0))

\* list[:n], n an int (negative n counts from the end).
SlicePrefix(list, n) ==
    IF n >= 0 THEN SubSeq(list, 1, IntMin(n, Len(list)))
    ELSE SubSeq(list, 1, IntMax(Len(list) + n, 0))

(***************************************************************************)
(* Component scorers.                                                      *)
(***************************************************************************)

\* exp(-x) for x = 2 * gap^2 / d2^2.  y = x / 2^ExpHalvings is small, exp(-y)
\* is summed by its alternating Taylor series in fixed point with ExpFracBits
\* fractional bits, and the sum is squared ExpHalvings times.  st.term is
\* y^n / n! for n = st.n, st.pos the sum of the terms added so far (even n),
\* st.neg the sum of the terms subtracted (odd n).
ExpFracBits == 5 * LimbBits

ExpHalvings == 5

ExpNextTerm(term, n, gap, d2) ==
    BigDivSmall(BigDivSmall(BigDivSmall(BigDivSmall(
        BigMulSmall(BigMulSmall(term, gap), gap),
        d2).q, d2).q, 2^(ExpHalvings - 1)).q, n + 1).q

RECURSIVE ExpNegSum(_, _, _)
ExpNegSum(st, gap, d2) ==
    IF st.term = <<>> THEN st
    ELSE ExpNegSum([term |-> ExpNextTerm(st.term, st.n, gap, d2),
                    n    |-> st.n + 1,
                    pos  |-> IF st.n % 2 = 0 THEN BigAdd(st.pos, st.term) ELSE st.pos,
                    neg  |-> IF st.n % 2 = 1 THEN BigAdd(st.neg, st.term) ELSE st.neg],
                   gap, d2)

RECURSIVE SquareTimes(_, _)
SquareTimes(r, k) ==
    IF k = 0 \/ r = <<>> THEN r
    ELSE SquareTimes(BigShr(BigMul(r, r), ExpFracBits), k - 1)

\* math.exp(-0.5 * (gap / sigma) ** 2) with sigma = d2 / 2.  Below
\* exp(-10) < 0.00005 the score rounds to 0.0 whatever the digits are.
GaussDecay(gap, d2) ==
    IF 2 * gap * gap >= 10 * d2 * d2 THEN FromInt(0)
    ELSE LET sum == ExpNegSum([term |-> BigShl(<<1>>, ExpFracBits), n |-> 0,
                               pos |-> <<>>, neg |-> <<>>], gap, d2)
         IN  Fl(SquareTimes(BigSub(sum.pos, sum.neg), ExpHalvings),
                0 - ExpFracBits, FALSE)

\* x / (h2 / 2): division by a float that is a multiple of one half.
FDivHalves(x, h2) ==
    LET q == FDivInt(x, h2) IN [m |-> q.m, e |-> q.e + 1]

score_temperature(city_temp, temp_min, temp_max) ==
    IF temp_min = None /\ temp_max = None THEN 6500
    ELSE LET min0 == IF temp_min = None THEN city_temp - 10 ELSE temp_min[1]
             max0 == IF temp_max = None THEN city_temp + 10 ELSE temp_max[1]
             tmin == IntMin(min0, max0)
             tmax == IntMax(min0, max0)
         IN  IF tmin <= city_temp /\ city_temp <= tmax
             THEN LET \* abs(city_temp - mid), a multiple of one half
                      dist      == [m |-> BigFromInt(IntAbs(2 * city_temp - (tmin + tmax))),
                                    e |-> -1]
                      \* half_range = max((tmax - tmin) / 2, 1), in halves
                      h2        == IntMax(tmax - tmin, 2)
                      closeness == FSub(FromInt(1),
                                        FDivHalves(FMul(FloatOfRatio(15, 100), dist), h2))
                  IN  Round4(FMax(FloatOfRatio(85, 100), closeness))
             ELSE LET gap == IntMax(tmin - city_temp, city_temp - tmax)
                      \* sigma = max((tmax - tmin) / 2, 3), in halves
                      d2  == IntMax(tmax - tmin, 6)
                  IN  Round4(FMax(FromInt(0), GaussDecay(gap, d2)))

\* round(base ** 0.6, 4) for base = q / 300: the largest K with
\* ((2K - 1) / 20000)^5 <= (q / 300)^3, that is with
\* (2K - 1)^5 * 27 <= q^3 * 32 * 10^14, found by bisection on exact integers
\* (lo satisfies the inequality, hi + 1 does not).
PowLhs(K) ==
    LET o == 2 * K - 1
    IN  BigMulSmall(BigMulSmall(BigMulSmall(BigMulSmall(BigMulSmall(
            BigFromInt(o), o), o), o), o), 27)

PowRhs(q) ==
    BigMulSmall(BigMulSmall(BigMulSmall(BigMulSmall(BigMulSmall(BigMulSmall(
        BigMulSmall(BigFromInt(q), q), q), 32), 10000), 10000), 10000), 100)

RECURSIVE PowSearch(_, _, _)
PowSearch(lo, hi, rhs) ==
    IF lo = hi THEN lo
    ELSE LET mid == (lo + hi + 1) \div 2
         IN  IF BigCmp(PowLhs(mid), rhs) <= 0
             THEN PowSearch(mid, hi, rhs)
             ELSE PowSearch(lo, mid - 1, rhs)

\* The branches tested in another order: anything but "high" and "medium"
\* is scored as "low".
score_precipitation_default_low(monthly_precip, rain_tolerance) ==
    LET base == IF monthly_precip >= 300 THEN FromInt(0)
                ELSE FSub(FromInt(1), FDivInt(FromInt(monthly_precip), 300))
    IN  IF rain_tolerance = "high"
        THEN Round4(FAdd(FloatOfRatio(5, 10), FMul(base, FloatOfRatio(5, 10))))
        ELSE IF rain_tolerance = "medium"
        THEN Round4(base)
        ELSE IF monthly_precip >= 300 THEN 0
             ELSE PowSearch(0, 10000, PowRhs(300 - monthly_precip))

score_precipitation(monthly_precip, rain_tolerance) ==
    LET base == IF monthly_precip >= 300 THEN FromInt(0)
                ELSE FSub(FromInt(1), FDivInt(FromInt(monthly_precip), 300))
    IN  IF rain_tolerance = "low"
        THEN IF monthly_precip >= 300 THEN 0
             ELSE PowSearch(0, 10000, PowRhs(300 - monthly_precip))
        ELSE IF rain_tolerance = "high"
        THEN Round4(FAdd(FloatOfRatio(5, 10), FMul(base, FloatOfRatio(5, 10))))
        ELSE Round4(base)

table ==
    [off_peak |-> [off |-> 10000, shoulder |-> 5500,  peak |-> 500],
     shoulder |-> [shoulder |-> 10000, off |-> 7000,  peak |-> 2500],
     any      |-> [shoulder |-> 10000, off |-> 8500,  peak |-> 7500]]

Season(month, peak_months, shoulder_months) ==
    IF InList(month, peak_months) THEN "peak"
    ELSE IF InList(month, shoulder_months) THEN "shoulder"
    ELSE "off"

\* An unknown preference read as the first row of the table.
score_crowd_first_row(month, peak_months, shoulder_months, crowd_preference) ==
    Get(table, crowd_preference, table["off_peak"])[Season(month, peak_months, shoulder_months)]

score_crowd(month, peak_months, shoulder_months, crowd_preference) ==
    Get(table, crowd_preference, table["any"])[Season(month, peak_months, shoulder_months)]

\* A match by equality only.
TagMatchesExact(pt, city_tags_l) == pt \in city_tags_l

TagMatches(pt, city_tags_l) ==
    pt \in city_tags_l \/ \E ct \in city_tags_l : InStr(pt, ct) \/ InStr(ct, pt)

\* The two early returns in the other order.
score_tags_city_first(city_tags, preferred_tags) ==
    IF city_tags = <<>> THEN 2000
    ELSE IF preferred_tags = <<>> THEN 6500
    ELSE LET city_tags_l      == {lower(city_tags[i]) : i \in DOMAIN city_tags}
             preferred_tags_l == [i \in DOMAIN preferred_tags |-> lower(preferred_tags[i])]
             matches          == Cardinality({i \in DOMAIN preferred_tags_l :
                                      TagMatches(preferred_tags_l[i], city_tags_l)})
         IN  Round4(FMin(FromInt(1),
                         FDivInt(FromInt(matches), Len(preferred_tags_l))))

score_tags(city_tags, preferred_tags) ==
    IF preferred_tags = <<>> THEN 6500
    ELSE IF city_tags = <<>> THEN 2000
    ELSE LET city_tags_l      == {lower(city_tags[i]) : i \in DOMAIN city_tags}
             preferred_tags_l == [i \in DOMAIN preferred_tags |-> lower(preferred_tags[i])]
             matches          == Cardinality({i \in DOMAIN preferred_tags_l :
                                      TagMatches(preferred_tags_l[i], city_tags_l)})
         IN  Round4(FMin(FromInt(1),
                         FDivInt(FromInt(matches), Len(preferred_tags_l))))

(***************************************************************************)
(* The ranking function.                                                   *)
(***************************************************************************)
W_TEMP  == FloatOfRatio(40, 100)

W_RAIN  == FloatOfRatio(30, 100)

W_CROWD == FloatOfRatio(20, 100)

W_TAGS  == FloatOfRatio(10, 100)

\* The four scores added up without their weights.
FinalScoreUnweighted(t_score, r_score, c_score, g_score) ==
    t_score + r_score + c_score + g_score

\* round(W_TEMP * t + W_RAIN * r + W_CROWD * c + W_TAGS * g, 4), the sum taken
\* left to right in floats.
FinalScore(t_score, r_score, c_score, g_score) ==
    Round4(FAdd(FAdd(FAdd(FMul(W_TEMP, ScoreFloat(t_score)),
                          FMul(W_RAIN, ScoreFloat(r_score))),
                     FMul(W_CROWD, ScoreFloat(c_score))),
                FMul(W_TAGS, ScoreFloat(g_score))))

\* The filter with the city's region and country compared as written.
ExcludedCaseSensitive(city, exclude) ==
    LET region  == Get(city, "region", <<>>)
        country == Get(city, "country", <<>>)
    IN  \E i \in DOMAIN exclude :
            InStr(exclude[i], region) \/ InStr(exclude[i], country)

\* The region/country exclusion filter; exclude is already lowered.
Excluded(city, exclude) ==
    LET region  == lower(Get(city, "region", <<>>))
        country == lower(Get(city, "country", <<>>))
    IN  \E i \in DOMAIN exclude :
            InStr(exclude[i], region) \/ InStr(exclude[i], country)

\* The indices (in catalog order) of the cities the loop does not skip.
Surviving(cities, preferences) ==
    LET ex0     == Get(preferences, "exclude_regions", <<>>)
        exclude == [i \in DOMAIN ex0 |-> lower(ex0[i])]
        Keep(i) == ~Excluded(cities[i], exclude)
    IN  SelectSeq([i \in 1..Len(cities) |-> i], Keep)

\* The label with the shoulder list tested first.
SeasonLabelShoulderFirst(m, peak_months, shoulder_months) ==
    IF InList(m, shoulder_months) THEN "shoulder season"
    ELSE IF InList(m, peak_months) THEN "peak season"
    ELSE "off season"

SeasonLabel(m, peak_months, shoulder_months) ==
    IF InList(m, peak_months) THEN "peak season"
    ELSE IF InList(m, shoulder_months) THEN "shoulder season"
    ELSE "off season"

\* One entry of results; "city" is the reference to the catalog entry, kept as
\* its position in cities.  s holds t_score, r_score, c_score, g_score.
Candidate(cities, i, preferences) ==
    LET city            == cities[i]
        month_0         == Get(preferences, "travel_month", 1) - 1
        city_temp       == Index(city.monthly_temp, month_0)
        city_precip     == Index(city.monthly_precip, month_0)
        peak_months     == Get(city, "peak_months", <<>>)
        shoulder_months == Get(city, "shoulder_months", <<>>)
    IN  With(<<score_temperature(city_temp, GetOpt(preferences, "temp_min"),
                                 GetOpt(preferences, "temp_max")),
               score_precipitation(city_precip,
                                   Get(preferences, "rain_tolerance", "medium")),
               score_crowd(month_0 + 1, peak_months, shoulder_months,
                           Get(preferences, "crowd_preference", "any")),
               score_tags(Get(city, "tags", <<>>),
                          Get(preferences, "environment_tags", <<>>))>>,
             LAMBDA s :
               [city       |-> i,
                scores     |-> [temp |-> s[1], rain |-> s[2], crowd |-> s[3],
                                tags |-> s[4],
                                final |-> FinalScore(s[1], s[2], s[3], s[4])],
                month_data |-> [temp |-> city_temp, precip |-> city_precip,
                                season |-> SeasonLabel(month_0 + 1, peak_months,
                                                       shoulder_months)]])

\* An ascending stable sort read backwards: descending, ties in reverse order.
SortByFinalReversed(results) ==
    LET n        == Len(results)
        key(k)   == results[k].scores.final
        Place(k) == 1 + Cardinality({j \in 1..n : key(j) > key(k)})
                      + Cardinality({j \in (k + 1)..n : key(j) = key(k)})
    IN  [p \in 1..n |-> results[CHOOSE k \in 1..n : Place(k) = p]]

\* list.sort(key = final, reverse = True): descending, and stable (entries
\* with equal keys keep their order).  Entry k moves to position Place(k).
SortByFinalDesc(results) ==
    LET n        == Len(results)
        key(k)   == results[k].scores.final
        Place(k) == 1 + Cardinality({j \in 1..n : key(j) > key(k)})
                      + Cardinality({j \in 1..(k - 1) : key(j) = key(k)})
    IN  [p \in 1..n |-> results[CHOOSE k \in 1..n : Place(k) = p]]

\* rank_cities returns a list, or raises IndexError at the first city it does
\* not skip whose monthly arrays have no entry month_0.
rank_cities(cities, preferences, top_n) ==
    LET month_0     == Get(preferences, "travel_month", 1) - 1
        num_results == Get(preferences, "num_results", top_n)
        kept        == Surviving(cities, preferences)
        raises      == \E k \in DOMAIN kept :
                           \/ ~IndexOk(cities[kept[k]].monthly_temp, month_0)
                           \/ ~IndexOk(cities[kept[k]].monthly_precip, month_0)
    IN  IF raises THEN [raised |-> "IndexError", value |-> <<>>]
        ELSE With([k \in DOMAIN kept |-> Candidate(cities, kept[k], preferences)],
                  LAMBDA results :
                    [raised |-> "none",
                     value  |-> SlicePrefix(SortByFinalDesc(results), num_results)])

(***************************************************************************)
(* The result formatter.  The text is a sequence of characters; the two    *)
(* characters outside ASCII are written "U+00B0" (degree sign) and         *)
(* "U+2014" (em dash), the line feed "\n".                                 *)
(***************************************************************************)
UpperChar(c) ==
    IF \E i \in DOMAIN LowerCase : LowerCase[i] = c
    THEN UpperCase[CHOOSE i \in DOMAIN LowerCase : LowerCase[i] = c]
    ELSE c

upper(str) == [i \in DOMAIN str |-> UpperChar(str[i])]

Digits == <<"0", "1", "2", "3", "4", "5", "6", "7", "8", "9">>

\* str(n) for an int n.
RECURSIVE StrNat(_)
StrNat(n) ==
    IF n < 10 THEN <<Digits[n + 1]>>
    ELSE StrNat(n \div 10) \o <<Digits[(n % 10) + 1]>>

Str(n) == IF n < 0 THEN <<"-">> \o StrNat(0 - n) ELSE StrNat(n)

\* The hundredths that f"{x:.2f}" prints for the score x = K / 10000: the
\* exact value of the float x rounded to two decimals, an exact tie going to
\* the even digit.
Hundredths(K) ==
    LET h   == K \div 100
        rem == K % 100
    IN  IF rem < 50 THEN h
        ELSE IF rem > 50 THEN h + 1
        ELSE With(ScoreFloat(K), LAMBDA x :
               With(BigMulSmall(x.m, 200), LAMBDA lhs :
                 With(BigShl(BigFromInt(2 * h + 1), 0 - x.e), LAMBDA rhs :
                   With(BigCmp(lhs, rhs), LAMBDA cmp :
                     IF cmp > 0 THEN h + 1
                     ELSE IF cmp < 0 THEN h
                     ELSE IF h % 2 = 0 THEN h ELSE h + 1))))

Format2f(K) ==
    With(Hundredths(K), LAMBDA h :
      StrNat(h \div 100)
          \o <<".", Digits[((h \div 10) % 10) + 1], Digits[(h % 10) + 1]>>)

\* sep.join(list[i:]) for 0 <= i < len(list), written with i counted from 1.
RECURSIVE JoinFrom(_, _, _)
JoinFrom(sep, list, i) ==
    IF i = Len(list) THEN list[i]
    ELSE list[i] \o sep \o JoinFrom(sep, list, i + 1)

\* sep.join(list)
Join(sep, list) == IF list = <<>> THEN <<>> ELSE JoinFrom(sep, list, 1)

\* The season labels as text.
SeasonText(season) ==
    CASE season = "peak season" ->
           <<"p", "e", "a", "k", " ", "s", "e", "a", "s", "o", "n">>
      [] season = "shoulder season" ->
           <<"s", "h", "o", "u", "l", "d", "e", "r", " ", "s", "e", "a", "s", "o",
           "n">>
      [] season = "off season" ->
           <<"o", "f", "f", " ", "s", "e", "a", "s", "o", "n">>

NoMatchPrefix ==
    <<"[", "N", "o", " ", "d", "e", "s", "t", "i", "n", "a", "t", "i", "o",
      "n", "s", " ", "m", "a", "t", "c", "h", "e", "d", " ", "t", "h", "e",
      " ", "c", "r", "i", "t", "e", "r", "i", "a", " ", "f", "o", "r", " ">>

NoMatchSuffix ==
    <<".", " ", "S", "u", "g", "g", "e", "s", "t", " ", "b", "r", "o", "a",
      "d", "e", "n", "i", "n", "g", " ", "p", "r", "e", "f", "e", "r", "e",
      "n", "c", "e", "s", ".", "]">>

DatasetPrefix ==
    <<"[", "D", "A", "T", "A", "S", "E", "T", ":", " ", "T", "O", "P", " ",
      "D", "E", "S", "T", "I", "N", "A", "T", "I", "O", "N", "S", " ", "F",
      "O", "R", " ">>

ScoreLabel ==
    <<" ", " ", "[", "S", "c", "o", "r", "e", ":", " ">>

TempLabel ==
    <<" ", " ", " ", "A", "v", "g", " ", "t", "e", "m", "p", ":", " ">>

PrecipLabel ==
    <<"U+00B0", "C", " ", "|", " ", "P", "r", "e", "c", "i", "p", "i", "t",
      "a", "t", "i", "o", "n", ":", " ">>

StatusLabel ==
    <<"m", "m", " ", "|", " ", "S", "t", "a", "t", "u", "s", ":", " ">>

BreakdownLabel ==
    <<" ", " ", " ", "S", "c", "o", "r", "e", " ", "b", "r", "e", "a", "k",
      "d", "o", "w", "n", " ", "U+2014", " ", "t", "e", "m", "p", ":">>

RainLabel ==
    <<" ", " ", "r", "a", "i", "n", ":">>

CrowdLabel ==
    <<" ", " ", "c", "r", "o", "w", "d", ":">>

TagsScoreLabel ==
    <<" ", " ", "t", "a", "g", "s", ":">>

TagsLabel ==
    <<" ", " ", " ", "T", "a", "g", "s", ":", " ">>

Instruction ==
    <<"[", "I", "N", "S", "T", "R", "U", "C", "T", "I", "O", "N", ":", " ",
      "U", "s", "e", " ", "t", "h", "e", " ", "d", "a", "t", "a", " ", "a",
      "b", "o", "v", "e", " ", "t", "o", " ", "e", "x", "p", "l", "a", "i",
      "n", " ", "y", "o", "u", "r", " ", "r", "e", "c", "o", "m", "m", "e",
      "n", "d", "a", "t", "i", "o", "n", "s", ".", " ", "C", "i", "t", "e",
      " ", "a", "c", "t", "u", "a", "l", " ", "t", "e", "m", "p", "e", "r",
      "a", "t", "u", "r", "e", "s", " ", "a", "n", "d", " ", "c", "r", "o",
      "w", "d", " ", "s", "t", "a", "t", "u", "s", ".", " ", "D", "o", " ",
      "N", "O", "T", " ", "i", "n", "v", "e", "n", "t", " ", "d", "a", "t",
      "a", " ", "n", "o", "t", " ", "s", "h", "o", "w", "n", " ", "a", "b",
      "o", "v", "e", ".", "]">>

\* The five lines of candidate number i; cities resolves result["city"].
ResultLines(cities, result, i) ==
    LET city       == cities[result.city]
        scores     == result.scores
        month_data == result.month_data
    IN  << Str(i) \o <<".", " ">> \o city.name \o <<",", " ">> \o city.country
               \o ScoreLabel \o Format2f(scores.final) \o <<"]">>,
           TempLabel \o Str(month_data.temp) \o PrecipLabel
               \o Str(month_data.precip) \o StatusLabel
               \o SeasonText(month_data.season),
           BreakdownLabel \o Format2f(scores.temp) \o RainLabel
               \o Format2f(scores.rain) \o CrowdLabel \o Format2f(scores.crowd)
               \o TagsScoreLabel \o Format2f(scores.tags),
           TagsLabel \o Join(<<",", " ">>, Get(city, "tags", <<>>)),
           <<>> >>

RECURSIVE AllResultLines(_, _, _)
AllResultLines(cities, ranked_results, i) ==
    IF i > Len(ranked_results) THEN <<>>
    ELSE ResultLines(cities, ranked_results[i], i)
             \o AllResultLines(cities, ranked_results, i + 1)

\* lines, for a list that is not empty.
DatasetLines(cities, ranked_results, month_name) ==
    << DatasetPrefix \o upper(month_name) \o <<"]">>, <<>> >>
        \o AllResultLines(cities, ranked_results, 1)
        \o << Instruction >>

\* The formatter without its test for the empty list.
format_results_always_dataset(cities, ranked_results, month_name) ==
    Join(<<"\n">>, DatasetLines(cities, ranked_results, month_name))

\* cities is the catalog the candidates' city references point into.
format_results_for_claude(cities, ranked_results, month_name) ==
    IF ranked_results = <<>>
    THEN NoMatchPrefix \o month_name \o NoMatchSuffix
    ELSE Join(<<"\n">>, DatasetLines(cities, ranked_results, month_name))

\* top_n: int = 8
TopN == 8

MONTH_NAMES ==
    <<<<"J", "a", "n", "u", "a", "r", "y">>,
      <<"F", "e", "b", "r", "u", "a", "r", "y">>,
      <<"M", "a", "r", "c", "h">>,
      <<"A", "p", "r", "i", "l">>,
      <<"M", "a", "y">>,
      <<"J", "u", "n", "e">>,
      <<"J", "u", "l", "y">>,
      <<"A", "u", "g", "u", "s", "t">>,
      <<"S", "e", "p", "t", "e", "m", "b", "e", "r">>,
      <<"O", "c", "t", "o", "b", "e", "r">>,
      <<"N", "o", "v", "e", "m", "b", "e", "r">>,
      <<"D", "e", "c", "e", "m", "b", "e", "r">>>>

\* execute_search; current_month is CURRENT_MONTH, the month the program was
\* started in.  IndexError comes from MONTH_NAMES[month - 1] or from
\* rank_cities.
execute_search(cities, tool_input, current_month) ==
    LET month == Get(tool_input, "travel_month", current_month)
    IN  IF ~IndexOk(MONTH_NAMES, month - 1)
        THEN [raised |-> "IndexError", value |-> <<>>]
        ELSE With(rank_cities(cities, tool_input, TopN),
                  LAMBDA ranked :
                    IF ranked.raised # "none" THEN ranked
                    ELSE [raised |-> "none",
                          value  |-> format_results_for_claude(
                                         cities, ranked.value,
                                         Index(MONTH_NAMES, month - 1))])

(***************************************************************************)
(* The inputs of the model.                                                *)
(***************************************************************************)
\* The catalog holds at most MaxCities cities.
MaxCities == 2

\* num_results, when given, is 1 .. MaxResults (the tool schema: 1 .. 10).
MaxResults == 2

\* score_temperature is called with city temperatures -MaxTemp .. MaxTemp and
\* bounds 0 .. MaxBound.
MaxTemp == 24

MaxBound == 6

\* score_precipitation is called with 0 .. MaxPrecip mm.
MaxPrecip == 304

\* score_tags is called with at most MaxCityTags city tags and at most
\* MaxPrefTags preferred tags.
MaxCityTags == 2

MaxPrefTags == 3

Oslo ==
    [name |-> <<"O", "s", "l", "o">>, country |-> <<"N", "o", "r", "w", "a", "y">>, region |-> <<"E", "u", "r", "o", "p", "e">>,
     monthly_temp    |-> <<5, 4, 7, 11, 16, 20, 22, 21, 17, 12, 8, 3>>,
     monthly_precip  |-> <<50, 40, 45, 40, 55, 65, 80, 90, 85, 100, 75, 60>>,
     peak_months     |-> <<1, 7>>,
     shoulder_months |-> <<1, 2, 6>>,
     tags            |-> <<<<"c", "i", "t", "y">>, <<"s", "k", "i">>>>]

Bangkok ==
    [name |-> <<"B", "a", "n", "g", "k", "o", "k">>, country |-> <<"T", "h", "a", "i", "l", "a", "n", "d">>, region |-> <<"S", "o", "u", "t", "h", "e", "a", "s", "t", " ", "A", "s", "i", "a">>,
     monthly_temp    |-> <<30, 31, 32, 33, 32, 31, 31, 31, 30, 30, 29, 28>>,
     monthly_precip  |-> <<10, 30, 40, 90, 250, 160, 170, 200, 340, 240, 50, 5>>,
     peak_months     |-> <<11, 12>>,
     shoulder_months |-> <<2, 10>>,
     tags            |-> <<<<"c", "i", "t", "y">>, <<"f", "o", "o", "d">>>>]

Porto ==
    [name |-> <<"P", "o", "r", "t", "o">>, country |-> <<"P", "o", "r", "t", "u", "g", "a", "l">>, region |-> <<"E", "u", "r", "o", "p", "e">>,
     monthly_temp    |-> <<15, 15, 17, 18, 20, 23, 25, 25, 24, 21, 17, 14>>,
     monthly_precip  |-> <<150, 110, 90, 110, 90, 40, 20, 30, 70, 140, 160, 170>>,
     peak_months     |-> <<7, 8>>,
     shoulder_months |-> <<1, 5, 9>>,
     tags            |-> <<<<"c", "o", "a", "s", "t", "a", "l">>, <<"c", "i", "t", "y">>>>]

\* Same climate and seasons as Bangkok: the two tie whenever tags do not count.
Phuket ==
    [name |-> <<"P", "h", "u", "k", "e", "t">>, country |-> <<"T", "h", "a", "i", "l", "a", "n", "d">>, region |-> <<"A", "s", "i", "a">>,
     monthly_temp    |-> <<30, 31, 32, 33, 32, 31, 31, 31, 30, 30, 29, 28>>,
     monthly_precip  |-> <<10, 30, 40, 90, 250, 160, 170, 200, 340, 240, 50, 5>>,
     peak_months     |-> <<11, 12>>,
     shoulder_months |-> <<2, 10>>,
     tags            |-> <<<<"b", "e", "a", "c", "h">>, <<"i", "s", "l", "a", "n", "d">>>>]

Cities == {Oslo, Bangkok, Porto, Phuket}

\* A city with the rain and seasons of another, d degrees cooler all year.
Cooler(city, name, d) ==
    [city EXCEPT !.name = name,
                 !.monthly_temp = [m \in DOMAIN @ |-> @[m] - d]]

\* A catalog longer than top_n.
Atlas ==
    <<Oslo, Bangkok, Porto, Phuket,
      Cooler(Oslo, <<"B", "e", "r", "g", "e", "n">>, 4),
      Cooler(Bangkok, <<"P", "a", "t", "t", "a", "y", "a">>, 2),
      Cooler(Porto, <<"B", "r", "a", "g", "a">>, 3),
      Cooler(Phuket, <<"K", "r", "a", "b", "i">>, 1),
      Cooler(Oslo, <<"T", "r", "o", "m", "s", "o">>, 9)>>

RECURSIVE SeqsOfDistinct(_, _)
SeqsOfDistinct(S, n) ==
    IF n = 0 THEN {<<>>}
    ELSE LET shorter == SeqsOfDistinct(S, n - 1)
         IN  shorter \cup {Append(q, x) : q \in {r \in shorter : Len(r) = n - 1},
                                           x \in S}

NoRepeat(q) == \A i, j \in DOMAIN q : i # j => q[i] # q[j]

Catalogs == {q \in SeqsOfDistinct(Cities, MaxCities) : NoRepeat(q)} \cup {Atlas}

\* A dict with one key, or none.
Field(key, values) == {<<>>} \cup {key :> v : v \in values}

\* dict union of dicts with disjoint keys.
Dict(m, c, t, r, g, x, n) == m @@ c @@ t @@ r @@ g @@ x @@ n

PreferenceRecords ==
    {Dict("travel_month" :> m, "crowd_preference" :> c, t, r, g, x, n) :
        m \in {-12, 0, 1, 13},
        c \in {"off_peak", "any"},
        t \in {<<>>, [temp_min |-> 20, temp_max |-> 35]},
        r \in Field("rain_tolerance", {"low"}),
        g \in Field("environment_tags", {<<<<"B", "e", "a", "c", "h">>>>}),
        x \in Field("exclude_regions", {<<<<"a", "s", "i", "a">>>>,
                                        <<<<"E", "U", "R", "O", "P", "E">>>>}),
        n \in Field("num_results", 1..MaxResults)}

(***************************************************************************)
(* The state: the catalog loaded at start-up (CITIES), and the call in     *)
(* progress with what it returned.  The engine keeps nothing else.  The    *)
(* callers of the engine add their own state: frames holds the local       *)
(* variables of the rank_cities calls in progress in concurrent callers,   *)
(* conversation is the chat history of main() and turn the position of     *)
(* main() and run_agentic_turn in the turn in progress.                    *)
(***************************************************************************)
VARIABLES CITIES, pc, call, ret, frames, conversation, turn

vars == <<CITIES, pc, call, ret, frames, conversation, turn>>

NoCall == [fn |-> "none"]

\* No concurrent caller, no chat session.
NoFrames == <<>>

NoTurn == [pc |-> "none"]

Init ==
    /\ CITIES \in Catalogs
    /\ pc = "idle"
    /\ call = NoCall
    /\ ret = <<>>
    /\ frames = NoFrames
    /\ conversation = <<>>
    /\ turn = NoTurn

\* execute_search: rank_cities(CITIES, tool_input).
CallRankCities(preferences) ==
    /\ pc = "idle"
    /\ call' = [fn |-> "rank_cities", preferences |-> preferences]
    /\ ret' = rank_cities(CITIES, preferences, TopN)
    /\ pc' = "returned"
    /\ UNCHANGED <<CITIES, frames, conversation, turn>>

CallScoreTemperature(city_temp, temp_min, temp_max) ==
    /\ pc = "idle"
    /\ call' = [fn |-> "score_temperature", city_temp |-> city_temp,
                temp_min |-> temp_min, temp_max |-> temp_max]
    /\ ret' = score_temperature(city_temp, temp_min, temp_max)
    /\ pc' = "returned"
    /\ UNCHANGED <<CITIES, frames, conversation, turn>>

CallScorePrecipitation(monthly_precip, rain_tolerance) ==
    /\ pc = "idle"
    /\ call' = [fn |-> "score_precipitation", monthly_precip |-> monthly_precip,
                rain_tolerance |-> rain_tolerance]
    /\ ret' = score_precipitation(monthly_precip, rain_tolerance)
    /\ pc' = "returned"
    /\ UNCHANGED <<CITIES, frames, conversation, turn>>

CallScoreCrowd(month, peak_months, shoulder_months, crowd_preference) ==
    /\ pc = "idle"
    /\ call' = [fn |-> "score_crowd", month |-> month, peak_months |-> peak_months,
                shoulder_months |-> shoulder_months,
                crowd_preference |-> crowd_preference]
    /\ ret' = score_crowd(month, peak_months, shoulder_months, crowd_preference)
    /\ pc' = "returned"
    /\ UNCHANGED <<CITIES, frames, conversation, turn>>

CallScoreTags(city_tags, preferred_tags) ==
    /\ pc = "idle"
    /\ call' = [fn |-> "score_tags", city_tags |-> city_tags,
                preferred_tags |-> preferred_tags]
    /\ ret' = score_tags(city_tags, preferred_tags)
    /\ pc' = "returned"
    /\ UNCHANGED <<CITIES, frames, conversation, turn>>

\* The call is over; nothing of it is kept.
Return ==
    /\ pc = "returned"
    /\ pc' = "idle"
    /\ call' = NoCall
    /\ ret' = <<>>
    /\ UNCHANGED <<CITIES, frames, conversation, turn>>

\* The ranking engine called on the loaded catalog.
Next ==
    \/ \E preferences \in PreferenceRecords : CallRankCities(preferences)
    \/ Return

Spec == Init /\ [][Next]_vars

\* Every function of the scoring module called on its own, with the long
\* catalog loaded.
OptBounds == {None} \cup {Some(b) : b \in 0..MaxBound}

Tolerances == {"low", "medium", "high", "monsoon"}

MonthLists == {<<>>, <<7, 8>>, <<12, 1>>, <<1, 2, 6>>}

CrowdPreferences == {"off_peak", "shoulder", "any", "solo"}

TagWords == {<<"C", "o", "a", "s", "t">>, <<"c", "o", "a", "s", "t", "a", "l">>, <<"s", "k", "i">>}

RECURSIVE SeqsUpTo(_, _)
SeqsUpTo(S, n) ==
    IF n = 0 THEN {<<>>}
    ELSE LET shorter == SeqsUpTo(S, n - 1)
         IN  shorter \cup {Append(q, x) : q \in {r \in shorter : Len(r) = n - 1},
                                           x \in S}

InitScorers ==
    /\ CITIES = Atlas
    /\ pc = "idle"
    /\ call = NoCall
    /\ ret = <<>>
    /\ frames = NoFrames
    /\ conversation = <<>>
    /\ turn = NoTurn

NextScorers ==
    \/ \E city_temp \in (0 - MaxTemp)..MaxTemp, temp_min \in OptBounds,
          temp_max \in OptBounds :
           CallScoreTemperature(city_temp, temp_min, temp_max)
    \/ \E monthly_precip \in 0..MaxPrecip, rain_tolerance \in Tolerances :
           CallScorePrecipitation(monthly_precip, rain_tolerance)
    \/ \E month \in 0..13, peak_months \in MonthLists,
          shoulder_months \in MonthLists, crowd_preference \in CrowdPreferences :
           CallScoreCrowd(month, peak_months, shoulder_months, crowd_preference)
    \/ \E city_tags \in SeqsUpTo(TagWords, MaxCityTags),
          preferred_tags \in SeqsUpTo(TagWords, MaxPrefTags) :
           CallScoreTags(city_tags, preferred_tags)
    \/ \E preferences \in PreferenceRecords : CallRankCities(preferences)
    \/ Return

SpecScorers == InitScorers /\ [][NextScorers]_vars

\* The tool handler called on the loaded catalog.  CURRENT_MONTH is read
\* only when tool_input has no travel_month; when it has one, a single value
\* of current_month stands for all twelve.
CallExecuteSearch(tool_input, current_month) ==
    /\ pc = "idle"
    /\ call' = [fn |-> "execute_search", tool_input |-> tool_input,
                current_month |-> current_month]
    /\ ret' = execute_search(CITIES, tool_input, current_month)
    /\ pc' = "returned"
    /\ UNCHANGED <<CITIES, frames, conversation, turn>>

\* The preference records, and two without travel_month.
ToolInputs ==
    PreferenceRecords
        \cup {[crowd_preference |-> "any"],
              [crowd_preference |-> "off_peak",
               exclude_regions |-> <<<<"E", "u", "r", "o", "p", "e">>>>]}

\* The values of CURRENT_MONTH that matter to a call: the month is read only
\* when the tool input has no travel_month.
CurrentMonths(tool_input) ==
    IF "travel_month" \in DOMAIN tool_input THEN {1} ELSE 1..12

\* The calls of the tool handler: a tool input and the month of the clock.
SearchCalls ==
    {<<tool_input, current_month>> \in ToolInputs \X (1..12) :
        current_month \in CurrentMonths(tool_input)}

NextSearch ==
    \/ \E c \in SearchCalls : CallExecuteSearch(c[1], c[2])
    \/ \E preferences \in ToolInputs : CallRankCities(preferences)
    \/ Return

SpecSearch == Init /\ [][NextSearch]_vars

(***************************************************************************)
(* Concurrent callers.  The web front end keeps one catalog for all its    *)
(* sessions, and each session calls rank_cities from its own thread.  A    *)
(* call is a frame of local variables: the preference record it was given, *)
(* the position of its loop over the catalog and its results list.  The    *)
(* threads interleave between any two passes of the loop.                  *)
(***************************************************************************)
Callers == {"session_1", "session_2"}

IdleFrame == [pc |-> "idle"]

\* The preference records the sessions ask with: a plain one, one with an
\* exclusion and a short list, one whose month is past the monthly lists,
\* one with a temperature range and a tag.
SessionPreferences ==
    {Dict("travel_month" :> 1, "crowd_preference" :> "any", <<>>, <<>>, <<>>,
          <<>>, <<>>),
     Dict("travel_month" :> 1, "crowd_preference" :> "off_peak", <<>>, <<>>,
          <<>>, "exclude_regions" :> <<<<"a", "s", "i", "a">>>>,
          "num_results" :> 1),
     Dict("travel_month" :> 13, "crowd_preference" :> "any", <<>>, <<>>, <<>>,
          "exclude_regions" :> <<<<"E", "U", "R", "O", "P", "E">>>>, <<>>),
     Dict("travel_month" :> 0, "crowd_preference" :> "any",
          [temp_min |-> 20, temp_max |-> 35], <<>>,
          "environment_tags" :> <<<<"B", "e", "a", "c", "h">>>>, <<>>, <<>>)}

\* The loop body that skips no city.
LoopBodyKeepAll(cities, i, preferences, results) ==
    LET month_0 == Get(preferences, "travel_month", 1) - 1
    IN  IF \/ ~IndexOk(cities[i].monthly_temp, month_0)
           \/ ~IndexOk(cities[i].monthly_precip, month_0)
        THEN [raised |-> "IndexError", value |-> <<>>]
        ELSE [raised |-> "none",
              value  |-> Append(results, Candidate(cities, i, preferences))]

\* One pass of the loop, for city number i (counted from 1): the results
\* list after it, or the exception that ends the call.
LoopBody(cities, i, preferences, results) ==
    LET month_0 == Get(preferences, "travel_month", 1) - 1
        ex0     == Get(preferences, "exclude_regions", <<>>)
        exclude == [k \in DOMAIN ex0 |-> lower(ex0[k])]
    IN  IF Excluded(cities[i], exclude)
        THEN [raised |-> "none", value |-> results]
        ELSE IF \/ ~IndexOk(cities[i].monthly_temp, month_0)
                \/ ~IndexOk(cities[i].monthly_precip, month_0)
        THEN [raised |-> "IndexError", value |-> <<>>]
        ELSE [raised |-> "none",
              value  |-> Append(results, Candidate(cities, i, preferences))]

\* The frame after one more step of the call: a pass of the loop while
\* cities are left, the sort and the slice after the last one.
NextFrame(cities, frame, top_n) ==
    IF frame.i <= Len(cities)
    THEN With(LoopBody(cities, frame.i, frame.preferences, frame.results),
              LAMBDA r :
                IF r.raised # "none"
                THEN [pc |-> "done", preferences |-> frame.preferences,
                      ret |-> r]
                ELSE [pc |-> "loop", preferences |-> frame.preferences,
                      i |-> frame.i + 1, results |-> r.value])
    ELSE [pc |-> "done", preferences |-> frame.preferences,
          ret |-> [raised |-> "none",
                   value  |-> SlicePrefix(SortByFinalDesc(frame.results),
                                          Get(frame.preferences, "num_results",
                                              top_n))]]

\* The call starts: the preferences are read and results = [].
RankBegin(c, preferences) ==
    /\ frames[c].pc = "idle"
    /\ frames' = [frames EXCEPT ![c] = [pc |-> "loop",
                                        preferences |-> preferences,
                                        i |-> 1, results |-> <<>>]]
    /\ UNCHANGED <<CITIES, pc, call, ret, conversation, turn>>

\* One pass of the loop over the shared catalog.
RankLoop(c) ==
    /\ frames[c].pc = "loop"
    /\ frames[c].i <= Len(CITIES)
    /\ frames' = [frames EXCEPT ![c] = NextFrame(CITIES, frames[c], TopN)]
    /\ UNCHANGED <<CITIES, pc, call, ret, conversation, turn>>

\* The loop is over: results.sort(...) and return results[:num_results].
RankFinish(c) ==
    /\ frames[c].pc = "loop"
    /\ frames[c].i > Len(CITIES)
    /\ frames' = [frames EXCEPT ![c] = NextFrame(CITIES, frames[c], TopN)]
    /\ UNCHANGED <<CITIES, pc, call, ret, conversation, turn>>

\* The session has its answer; the frame is gone.
RankReturn(c) ==
    /\ frames[c].pc = "done"
    /\ frames' = [frames EXCEPT ![c] = IdleFrame]
    /\ UNCHANGED <<CITIES, pc, call, ret, conversation, turn>>

InitConcurrent ==
    /\ CITIES \in Catalogs
    /\ pc = "idle"
    /\ call = NoCall
    /\ ret = <<>>
    /\ frames = [c \in Callers |-> IdleFrame]
    /\ conversation = <<>>
    /\ turn = NoTurn

NextConcurrent ==
    \/ \E c \in Callers, preferences \in SessionPreferences :
           RankBegin(c, preferences)
    \/ \E c \in Callers : RankLoop(c)
    \/ \E c \in Callers : RankFinish(c)
    \/ \E c \in Callers : RankReturn(c)

SpecConcurrent == InitConcurrent /\ [][NextConcurrent]_vars

(***************************************************************************)
(* The chat loop: main() reads a user message and run_agentic_turn calls   *)
(* the model until it ends its turn.  The model is the environment: each   *)
(* call either fails with an API error or returns a response, a stop       *)
(* reason with a list of content blocks.  A step of the loop runs from one *)
(* response of the model to the next call or to the return of the reply.   *)
(*   conversation  the message history, as main() and the loop append to   *)
(*                 it.                                                     *)
(*   turn.pc       "prompt" (main waits for the user), "loop" (a model     *)
(*                 call is under way), "crashed" (an exception main does   *)
(*                 not catch), "exited".                                   *)
(*   turn.calls    model calls made in this turn; turn.total, in the       *)
(*                 session.                                                *)
(*   turn.stops    the stop reasons of this turn's responses, in order.    *)
(*   turn.executed the ids of the tool_use blocks whose tool ran in the    *)
(*                 last step.                                              *)
(*   turn.reply    what run_agentic_turn returned or main printed, None    *)
(*                 while the turn runs.                                    *)
(*   turn.messages the history passed to the model at the last call.       *)
(***************************************************************************)
MAX_ITERATIONS == 6

\* The content of a message is a str (what the user typed) or a list (the
\* blocks of a response, the tool results); the value carries its type.
PyStr(s) == [str |-> s]

PyList(l) == [list |-> l]

IsList(v) == "list" \in DOMAIN v

\* Model calls in one session.
MaxCalls == 8

SearchTool == <<"s", "e", "a", "r", "c", "h", "_", "d", "e", "s", "t", "i", "n", "a", "t", "i", "o", "n", "s">>

OtherTool == <<"l", "o", "o", "k", "u", "p">>

UnknownToolPrefix == <<"[", "U", "n", "k", "n", "o", "w", "n", " ", "t", "o", "o", "l", ":", " ">>

IterationLimitReply == <<"[Season Radar hit an iteration limit. Please try again.]">>

ApiErrors == {"APIStatusError", "APIConnectionError"}

\* What main() prints for the two errors it catches.
ErrorReply(error) ==
    IF error = "APIStatusError" THEN <<"[API error ", "status_code", ": ", "message", "]">>
    ELSE <<"[Connection error ", "U+2014", " check your internet and try again.]">>

\* A tool input that excludes every city of the catalog, and one whose month
\* is past the month names.
NoMatchInput ==
    Dict("travel_month" :> 1, "crowd_preference" :> "any", <<>>, <<>>, <<>>,
         "exclude_regions" :> <<<<"e", "u", "r", "o", "p", "e">>>>, <<>>)

BadMonthInput ==
    Dict("travel_month" :> 13, "crowd_preference" :> "any", <<>>, <<>>, <<>>,
         <<>>, <<>>)

TextBlock(words) == [type |-> "text", text |-> words]

ThinkingBlock == [type |-> "thinking"]

ToolUseBlock(id, name, input) ==
    [type |-> "tool_use", id |-> id, name |-> name, input |-> input]

\* The responses a call can get, their tool_use blocks numbered within the
\* response.
Responses ==
    { [stop_reason |-> "end_turn",
       content |-> <<ThinkingBlock, TextBlock(<<"Go to ">>), TextBlock(<<"Oslo.">>)>>],
      [stop_reason |-> "tool_use",
       content |-> <<TextBlock(<<"Let me look.">>),
                     ToolUseBlock(1, OtherTool, NoMatchInput),
                     ToolUseBlock(2, SearchTool, NoMatchInput)>>],
      [stop_reason |-> "tool_use",
       content |-> <<ToolUseBlock(1, SearchTool, BadMonthInput)>>],
      [stop_reason |-> "tool_use",
       content |-> <<ToolUseBlock(1, OtherTool, NoMatchInput),
                     ToolUseBlock(2, SearchTool, BadMonthInput),
                     ToolUseBlock(3, SearchTool, NoMatchInput)>>],
      [stop_reason |-> "max_tokens",
       content |-> <<ThinkingBlock,
                     ToolUseBlock(1, SearchTool, NoMatchInput)>>] }

\* The response as call number n of the session returns it: the ids of its
\* tool_use blocks are new.
Issued(response, n) ==
    [response EXCEPT !.content =
        [k \in DOMAIN response.content |->
            IF response.content[k].type = "tool_use"
            THEN [response.content[k] EXCEPT !.id = <<n, @>>]
            ELSE response.content[k]]]

\* CURRENT_MONTH matters to a response only if one of its tool inputs has
\* no travel_month.
ResponseMonths(response) ==
    IF \A k \in DOMAIN response.content :
           response.content[k].type = "tool_use" =>
               "travel_month" \in DOMAIN response.content[k].input
    THEN {1} ELSE 1..12

process_tool_call(cities, name, tool_input, current_month) ==
    IF name = SearchTool
    THEN execute_search(cities, tool_input, current_month)
    ELSE [raised |-> "none", value |-> UnknownToolPrefix \o name \o <<"]">>]

IsToolUse(block) == block.type = "tool_use"

IsText(block) == "text" \in DOMAIN block /\ block.type = "text"

\* "".join(block.text for block in content if ... block.type == "text")
RECURSIVE TextFrom(_, _)
TextFrom(content, k) ==
    IF k > Len(content) THEN <<>>
    ELSE (IF IsText(content[k]) THEN content[k].text ELSE <<>>)
             \o TextFrom(content, k + 1)

TextOf(content) == TextFrom(content, 1)

\* The tool_result list of a tool_use response, or the exception of the
\* first tool that raises; ran is the ids of the blocks whose tool returned,
\* which are the blocks before the one that raises: the blocks after it are
\* never reached.
ToolResults(cities, content, current_month) ==
    With(SelectSeq(content, IsToolUse), LAMBDA blocks :
      With([k \in DOMAIN blocks |->
               process_tool_call(cities, blocks[k].name, blocks[k].input,
                                 current_month)],
           LAMBDA outs :
             IF \E k \in DOMAIN outs : outs[k].raised # "none"
             THEN With(CHOOSE k \in DOMAIN outs :
                         /\ outs[k].raised # "none"
                         /\ \A j \in 1..(k - 1) : outs[j].raised = "none",
                       LAMBDA first :
                         [raised |-> outs[first].raised,
                          value  |-> <<>>,
                          ran    |-> [k \in 1..(first - 1) |-> blocks[k].id]])
             ELSE [raised |-> "none",
                   value  |-> [k \in DOMAIN blocks |->
                                  [type        |-> "tool_result",
                                   tool_use_id |-> blocks[k].id,
                                   content     |-> outs[k].value]],
                   ran    |-> [k \in DOMAIN blocks |-> blocks[k].id]]))

ToolUseIds(content) ==
    With(SelectSeq(content, IsToolUse), LAMBDA blocks :
      [k \in DOMAIN blocks |-> blocks[k].id])

\* The loop that makes one call more than MAX_ITERATIONS.
LoopEndsLate(calls) == calls > MAX_ITERATIONS

\* for _ in range(MAX_ITERATIONS): no pass is left after this many calls.
LoopEnds(calls) == calls >= MAX_ITERATIONS

\* The end of a pass that did not return: the next pass, or the return
\* after the last one.
NextPass(history, t) ==
    IF LoopEnds(t.calls)
    THEN [conversation |-> history,
          turn |-> [t EXCEPT !.pc = "prompt", !.reply = IterationLimitReply]]
    ELSE [conversation |-> history, turn |-> t]

\* One pass of the loop from the response on.
AfterResponse(cities, history0, t0, response, current_month) ==
    LET history == Append(history0, [role |-> "assistant",
                                     content |-> PyList(response.content)])
        t       == [t0 EXCEPT !.calls = @ + 1, !.total = @ + 1,
                              !.messages = history0,
                              !.stops = Append(@, response.stop_reason),
                              !.executed = <<>>]
    IN  IF response.stop_reason = "end_turn"
        THEN [conversation |-> history,
              turn |-> [t EXCEPT !.pc = "prompt",
                                 !.reply = TextOf(response.content)]]
        ELSE IF response.stop_reason = "tool_use"
        THEN With(ToolResults(cities, response.content, current_month),
                  LAMBDA r :
                    IF r.raised # "none"
                    THEN [conversation |-> history,
                          turn |-> [t EXCEPT !.pc = "crashed",
                                             !.executed = r.ran,
                                             !.reply = <<r.raised>>]]
                    ELSE NextPass(Append(history, [role |-> "user",
                                                   content |-> PyList(r.value)]),
                                  [t EXCEPT !.executed = r.ran]))
        ELSE NextPass(history, t)

InitAgent ==
    /\ CITIES = <<Oslo, Porto>>
    /\ pc = "idle"
    /\ call = NoCall
    /\ ret = <<>>
    /\ frames = NoFrames
    /\ conversation = <<>>
    /\ turn = [pc |-> "prompt", calls |-> 0, total |-> 0, stops |-> <<>>,
               executed |-> <<>>, reply |-> <<>>, messages |-> <<>>]

\* main(): a user message (not empty, not a word that quits) starts a turn.
\* A turn starts only while the session has calls left for a whole turn.
UserInput(user_input) ==
    /\ turn.pc = "prompt"
    /\ turn.total + MAX_ITERATIONS <= MaxCalls
    /\ conversation' = Append(conversation, [role |-> "user",
                                             content |-> PyStr(user_input)])
    /\ turn' = [turn EXCEPT !.pc = "loop", !.calls = 0, !.stops = <<>>,
                            !.executed = <<>>, !.reply = <<>>]
    /\ UNCHANGED <<CITIES, pc, call, ret, frames>>

\* main(): quit, or end of input.
Quit ==
    /\ turn.pc = "prompt"
    /\ turn' = [turn EXCEPT !.pc = "exited"]
    /\ UNCHANGED <<CITIES, pc, call, ret, frames, conversation>>

\* The model call returns a response.
ModelResponds(response, current_month) ==
    /\ turn.pc = "loop"
    /\ turn.total < MaxCalls
    /\ conversation' =
           AfterResponse(CITIES, conversation, turn,
                         Issued(response, turn.total + 1),
                         current_month).conversation
    /\ turn' =
           AfterResponse(CITIES, conversation, turn,
                         Issued(response, turn.total + 1),
                         current_month).turn
    /\ UNCHANGED <<CITIES, pc, call, ret, frames>>

\* The model call raises one of the errors main() catches.
ModelFails(error) ==
    /\ turn.pc = "loop"
    /\ turn.total < MaxCalls
    /\ turn' = [turn EXCEPT !.pc = "prompt", !.calls = @ + 1, !.total = @ + 1,
                            !.messages = conversation, !.executed = <<>>,
                            !.reply = ErrorReply(error)]
    /\ UNCHANGED <<CITIES, pc, call, ret, frames, conversation>>

\* What a call can return: a response, and the month of the clock while its
\* tools run.
ModelReturns ==
    {<<response, current_month>> \in Responses \X (1..12) :
        current_month \in ResponseMonths(response)}

ModelStep ==
    \/ \E r \in ModelReturns : ModelResponds(r[1], r[2])
    \/ \E error \in ApiErrors : ModelFails(error)

NextAgent ==
    \/ UserInput("question")
    \/ Quit
    \/ \E r \in ModelReturns : ModelResponds(r[1], r[2])
    \/ \E error \in ApiErrors : ModelFails(error)

SpecAgent == InitAgent /\ [][NextAgent]_vars

\* Every model call returns or raises.
SpecAgentFair == SpecAgent /\ WF_vars(ModelStep)

(***************************************************************************)
(* Properties of rank_cities.  A call of rank_cities that returned a list  *)
(* is a state with pc = "returned", call.fn = "rank_cities" and            *)
(* ret.raised = "none"; ret.value is the list, call.preferences the        *)
(* preference record and CITIES the catalog.                               *)
(***************************************************************************)

\* C1: rank_cities never returns a candidate whose region or country
\* contains, ignoring case, a term of exclude_regions; and when all cities of
\* the catalog but one are excluded, exactly that one city is returned.
C1_ExcludedNeverReturned ==
    (pc = "returned" /\ call.fn = "rank_cities" /\ ret.raised = "none") =>
        LET terms   == Get(call.preferences, "exclude_regions", <<>>)
            Hit(c)  == \E i \in DOMAIN terms :
                           \/ InStr(lower(terms[i]), lower(Get(CITIES[c], "region", <<>>)))
                           \/ InStr(lower(terms[i]), lower(Get(CITIES[c], "country", <<>>)))
            allowed == {c \in DOMAIN CITIES : ~Hit(c)}
        IN  /\ \A k \in DOMAIN ret.value : ~Hit(ret.value[k].city)
            /\ (Len(CITIES) >= 2 /\ Cardinality(allowed) = 1) =>
                   /\ Len(ret.value) = 1
                   /\ ret.value[1].city \in allowed

\* A catalog of one Asian and one European city, "asia" excluded: only the
\* European city comes back.
C1_Witness ==
    /\ pc = "returned" /\ call.fn = "rank_cities" /\ ret.raised = "none"
    /\ CITIES = <<Bangkok, Oslo>>
    /\ Get(call.preferences, "exclude_regions", <<>>) = <<<<"a", "s", "i", "a">>>>
    /\ Len(ret.value) = 1
    /\ ret.value[1].city = 2

\* C2: the returned list is sorted non-increasing by final score, and
\* candidates with equal final score keep the relative order of their cities
\* in the catalog.
C2_SortedStable ==
    (pc = "returned" /\ call.fn = "rank_cities" /\ ret.raised = "none") =>
        \A k, l \in DOMAIN ret.value :
            k < l =>
                /\ ret.value[k].scores.final >= ret.value[l].scores.final
                /\ ret.value[k].scores.final = ret.value[l].scores.final
                       => ret.value[k].city < ret.value[l].city

\* A list in which a later city of the catalog precedes an earlier one, and
\* two candidates tie and are in catalog order.
C2_Witness ==
    /\ pc = "returned" /\ call.fn = "rank_cities" /\ ret.raised = "none"
    /\ \E k, l \in DOMAIN ret.value :
           k < l /\ ret.value[k].city > ret.value[l].city
    /\ \E k, l \in DOMAIN ret.value :
           /\ k < l
           /\ ret.value[k].scores.final = ret.value[l].scores.final
           /\ ret.value[k].city < ret.value[l].city

\* C3: the returned list has at most num_results entries (8 when num_results
\* is absent) and at most as many as cities survive the exclusion filter.
C3_LengthBounded ==
    (pc = "returned" /\ call.fn = "rank_cities" /\ ret.raised = "none") =>
        LET terms   == Get(call.preferences, "exclude_regions", <<>>)
            Hit(c)  == \E i \in DOMAIN terms :
                           \/ InStr(lower(terms[i]), lower(Get(CITIES[c], "region", <<>>)))
                           \/ InStr(lower(terms[i]), lower(Get(CITIES[c], "country", <<>>)))
            allowed == {c \in DOMAIN CITIES : ~Hit(c)}
        IN  /\ Len(ret.value) <= (IF "num_results" \in DOMAIN call.preferences
                                  THEN call.preferences["num_results"] ELSE 8)
            /\ Len(ret.value) <= Cardinality(allowed)

\* Nine cities survive, num_results is absent: eight come back.
C3_Witness ==
    /\ pc = "returned" /\ call.fn = "rank_cities" /\ ret.raised = "none"
    /\ Len(CITIES) = 9
    /\ "num_results" \notin DOMAIN call.preferences
    /\ "exclude_regions" \notin DOMAIN call.preferences
    /\ Len(ret.value) = 8

\* C4: the four component scores and the final score of every returned
\* candidate lie in [0, 1] (0 .. 10000 ten-thousandths).
C4_ScoresInUnitInterval ==
    (pc = "returned" /\ call.fn = "rank_cities" /\ ret.raised = "none") =>
        \A k \in DOMAIN ret.value :
            /\ ret.value[k].scores.temp  \in 0..10000
            /\ ret.value[k].scores.rain  \in 0..10000
            /\ ret.value[k].scores.crowd \in 0..10000
            /\ ret.value[k].scores.tags  \in 0..10000
            /\ ret.value[k].scores.final \in 0..10000

\* A candidate out of the temperature range (Gaussian branch), with a full
\* crowd score and a final score strictly inside the interval.
C4_Witness ==
    /\ pc = "returned" /\ call.fn = "rank_cities" /\ ret.raised = "none"
    /\ \E k \in DOMAIN ret.value :
           /\ ret.value[k].scores.temp \in 1..8499
           /\ ret.value[k].scores.crowd = 10000
           /\ ret.value[k].scores.rain \in 1..9999
           /\ ret.value[k].scores.final \in 1..9999

\* C5: a travel_month outside 1 .. 12 is rejected with an error: rank_cities
\* never returns a ranked list of candidates for it (computed, as it would
\* be, from some other month's data).
C5_OutOfRangeMonthRejected ==
    (/\ pc = "returned" /\ call.fn = "rank_cities"
     /\ Get(call.preferences, "travel_month", 1) \notin 1..12)
        => ~(ret.raised = "none" /\ ret.value # <<>>)

\* travel_month = 0 answered with a list built from December's figures.
C5_Witness ==
    /\ pc = "returned" /\ call.fn = "rank_cities" /\ ret.raised = "none"
    /\ CITIES = <<Oslo>>
    /\ Get(call.preferences, "travel_month", 1) = 0
    /\ Len(ret.value) = 1
    /\ ret.value[1].month_data.temp = Oslo.monthly_temp[12]
    /\ ret.value[1].month_data.precip = Oslo.monthly_precip[12]

(***************************************************************************)
(* Properties of the component scorers.  A call of a scorer that returned  *)
(* is a state with pc = "returned" and call.fn the scorer's name; call     *)
(* holds the arguments and ret the score in ten-thousandths.               *)
(***************************************************************************)

\* C6: score_crowd returns the table value of the pair (preference, season):
\* off_peak -> off 1.00, shoulder 0.55, peak 0.05; shoulder -> off 0.70,
\* shoulder 1.00, peak 0.25; any -> off 0.85, shoulder 1.00, peak 0.75; and a
\* preference outside the three is scored like "any".
C6_CrowdTable ==
    (pc = "returned" /\ call.fn = "score_crowd") =>
        LET In(m, list) == \E i \in DOMAIN list : list[i] = m
            season == IF In(call.month, call.peak_months) THEN "peak"
                      ELSE IF In(call.month, call.shoulder_months) THEN "shoulder"
                      ELSE "off"
            row    == IF call.crowd_preference \in {"off_peak", "shoulder", "any"}
                      THEN call.crowd_preference ELSE "any"
        IN  ret = CASE row = "off_peak" /\ season = "off"      -> 10000
                    [] row = "off_peak" /\ season = "shoulder" -> 5500
                    [] row = "off_peak" /\ season = "peak"     -> 500
                    [] row = "shoulder" /\ season = "off"      -> 7000
                    [] row = "shoulder" /\ season = "shoulder" -> 10000
                    [] row = "shoulder" /\ season = "peak"     -> 2500
                    [] row = "any"      /\ season = "off"      -> 8500
                    [] row = "any"      /\ season = "shoulder" -> 10000
                    [] row = "any"      /\ season = "peak"     -> 7500

\* An unknown preference, in a month listed both as peak and as shoulder.
C6_Witness ==
    /\ pc = "returned" /\ call.fn = "score_crowd"
    /\ call.crowd_preference = "solo"
    /\ call.month = 1
    /\ call.peak_months = <<12, 1>>
    /\ call.shoulder_months = <<1, 2, 6>>
    /\ ret = 7500

\* C7: for fixed temp_min and temp_max the temperature score does not grow
\* with the distance from the range: score(midpoint) >= score(boundary) >=
\* score(one sigma beyond the boundary), and no temperature outside the range
\* scores higher than the boundary of the range.
C7_MonotoneWithDistance ==
    (/\ pc = "returned" /\ call.fn = "score_temperature"
     /\ call.temp_min # None /\ call.temp_max # None) =>
        LET lo     == IntMin(call.temp_min[1], call.temp_max[1])
            hi     == IntMax(call.temp_min[1], call.temp_max[1])
            sigma2 == IntMax(hi - lo, 6)
            At(t)  == score_temperature(t, call.temp_min, call.temp_max)
        IN  /\ (call.city_temp = hi /\ (hi - lo) % 2 = 0) =>
                   /\ At((lo + hi) \div 2) >= ret
                   /\ ret >= At(hi + sigma2 \div 2)
            /\ call.city_temp > hi => ret <= At(hi)
            /\ call.city_temp < lo => ret <= At(lo)

\* One degree above the range 0 .. 6 scores above 0.85, the score of 6.
C7_Witness ==
    /\ pc = "returned" /\ call.fn = "score_temperature"
    /\ call.temp_min = Some(0) /\ call.temp_max = Some(6)
    /\ call.city_temp = 7
    /\ ret > 8500

\* C8: with one bound only, a city on the preferred side of the bound scores
\* at least 0.85, and on the wrong side a city farther from the bound never
\* scores higher than a city closer to it.
C8_OneSidedBound ==
    (pc = "returned" /\ call.fn = "score_temperature") =>
        /\ (call.temp_min # None /\ call.temp_max = None) =>
               /\ call.city_temp >= call.temp_min[1] => ret >= 8500
               /\ call.city_temp + 1 < call.temp_min[1] =>
                      ret <= score_temperature(call.city_temp + 1, call.temp_min, None)
        /\ (call.temp_min = None /\ call.temp_max # None) =>
               /\ call.city_temp <= call.temp_max[1] => ret >= 8500
               /\ call.city_temp - 1 > call.temp_max[1] =>
                      ret <= score_temperature(call.city_temp - 1, None, call.temp_max)

\* temp_min = 6 alone: a city at -24 scores above a city at -4.
C8_Witness ==
    /\ pc = "returned" /\ call.fn = "score_temperature"
    /\ call.temp_min = Some(6) /\ call.temp_max = None
    /\ call.city_temp = 0 - 24
    /\ ret > score_temperature(0 - 4, Some(6), None)

\* C9: score_temperature with both bounds absent returns 0.65 for any city
\* temperature, score_tags with no preferred tags returns 0.65 for any city
\* tags, and so, with neither preference given, candidates with equal rain
\* and crowd scores have equal final scores.
C9_AbsentPreferenceNeutral ==
    /\ (/\ pc = "returned" /\ call.fn = "score_temperature"
        /\ call.temp_min = None /\ call.temp_max = None) => ret = 6500
    /\ (/\ pc = "returned" /\ call.fn = "score_tags"
        /\ call.preferred_tags = <<>>) => ret = 6500
    /\ (/\ pc = "returned" /\ call.fn = "rank_cities" /\ ret.raised = "none"
        /\ "temp_min" \notin DOMAIN call.preferences
        /\ "temp_max" \notin DOMAIN call.preferences
        /\ Get(call.preferences, "environment_tags", <<>>) = <<>>) =>
           /\ \A k \in DOMAIN ret.value :
                  ret.value[k].scores.temp = 6500 /\ ret.value[k].scores.tags = 6500
           /\ \A k, l \in DOMAIN ret.value :
                  (/\ ret.value[k].scores.rain = ret.value[l].scores.rain
                   /\ ret.value[k].scores.crowd = ret.value[l].scores.crowd)
                      => ret.value[k].scores.final = ret.value[l].scores.final

\* Neither preference given: two cities with different temperatures and
\* different tags, equal rain and crowd scores, and the same final score.
C9_Witness ==
    /\ pc = "returned" /\ call.fn = "rank_cities" /\ ret.raised = "none"
    /\ "temp_min" \notin DOMAIN call.preferences
    /\ "temp_max" \notin DOMAIN call.preferences
    /\ "environment_tags" \notin DOMAIN call.preferences
    /\ \E k, l \in DOMAIN ret.value :
           /\ ret.value[k].month_data.temp # ret.value[l].month_data.temp
           /\ CITIES[ret.value[k].city].tags # CITIES[ret.value[l].city].tags
           /\ ret.value[k].scores.rain = ret.value[l].scores.rain
           /\ ret.value[k].scores.crowd = ret.value[l].scores.crowd
           /\ ret.value[k].scores.final = ret.value[l].scores.final

\* C10 (as stated): with preferred tags, score_tags returns 0.2 for a city
\* without tags and otherwise the number of preferred tags that, ignoring
\* case, equal, contain or are contained in a city tag, divided by the number
\* of preferred tags, capped at 1.0.
C10_ExactRatio ==
    (pc = "returned" /\ call.fn = "score_tags" /\ call.preferred_tags # <<>>) =>
        LET pref    == call.preferred_tags
            city    == call.city_tags
            Match(i) == \E j \in DOMAIN city :
                            \/ lower(pref[i]) = lower(city[j])
                            \/ InStr(lower(pref[i]), lower(city[j]))
                            \/ InStr(lower(city[j]), lower(pref[i]))
            matches == Cardinality({i \in DOMAIN pref : Match(i)})
        IN  IF city = <<>> THEN ret = 2000
            ELSE ret * Len(pref) = 10000 * IntMin(matches, Len(pref))

\* C10 (amended): the same, the quotient rounded to 4 decimal places: ret is
\* a ten-thousandth nearest to matches / len; and the score is 1.0 when every
\* preferred tag is a city tag.
C10_RoundedRatio ==
    (pc = "returned" /\ call.fn = "score_tags" /\ call.preferred_tags # <<>>) =>
        LET pref    == call.preferred_tags
            city    == call.city_tags
            Match(i) == \E j \in DOMAIN city :
                            \/ lower(pref[i]) = lower(city[j])
                            \/ InStr(lower(pref[i]), lower(city[j]))
                            \/ InStr(lower(city[j]), lower(pref[i]))
            matches == Cardinality({i \in DOMAIN pref : Match(i)})
            exact   == \A i \in DOMAIN pref : \E j \in DOMAIN city : pref[i] = city[j]
        IN  IF city = <<>> THEN ret = 2000
            ELSE /\ 2 * IntAbs(ret * Len(pref) - 10000 * IntMin(matches, Len(pref)))
                        <= Len(pref)
                 /\ exact => ret = 10000

\* One of three preferred tags matches, by containment and across case:
\* 0.3333.
C10_Witness ==
    /\ pc = "returned" /\ call.fn = "score_tags"
    /\ call.city_tags = <<<<"c", "o", "a", "s", "t", "a", "l">>>>
    /\ call.preferred_tags = <<<<"s", "k", "i">>, <<"C", "o", "a", "s", "t">>, <<"s", "k", "i">>>>
    /\ ret = 3333

\* C11: for each rain tolerance, score_precipitation does not grow with the
\* monthly precipitation, is 1.0 at 0 mm and is at its minimum from 300 mm on
\* (0.0 for low and medium, 0.5 for high); with "high" it is never below 0.5;
\* a tolerance outside low, medium, high is scored as "medium".
C11_PrecipitationMonotone ==
    (pc = "returned" /\ call.fn = "score_precipitation") =>
        LET p    == call.monthly_precip
            tol  == call.rain_tolerance
            least == IF tol = "high" THEN 5000 ELSE 0
        IN  /\ p >= 1 => ret <= score_precipitation(p - 1, tol)
            /\ p = 0 => ret = 10000
            /\ p >= 300 => ret = least
            /\ ret >= least
            /\ tol \notin {"low", "medium", "high"} =>
                   \* medium: the ten-thousandth nearest to 1 - p / 300
                   /\ ret = score_precipitation(p, "medium")
                   /\ 2 * IntAbs(3 * ret - 100 * IntMax(300 - p, 0)) <= 3

\* An unknown tolerance at 100 mm: 0.6667, the "medium" score.
C11_Witness ==
    /\ pc = "returned" /\ call.fn = "score_precipitation"
    /\ call.rain_tolerance = "monsoon"
    /\ call.monthly_precip = 100
    /\ ret = 6667

\* C14: every returned candidate carries one season label for the requested
\* month, classified peak first (peak if the month is in peak_months, even
\* when it is in shoulder_months too; else shoulder; else off), and its crowd
\* score is the table entry for (crowd_preference, labelled season).
C14_SeasonLabelMatchesCrowd ==
    (pc = "returned" /\ call.fn = "rank_cities" /\ ret.raised = "none") =>
        \A k \in DOMAIN ret.value :
            LET city   == CITIES[ret.value[k].city]
                month  == Get(call.preferences, "travel_month", 1)
                In(list) == \E i \in DOMAIN list : list[i] = month
                season == IF In(Get(city, "peak_months", <<>>)) THEN "peak"
                          ELSE IF In(Get(city, "shoulder_months", <<>>)) THEN "shoulder"
                          ELSE "off"
                pref   == Get(call.preferences, "crowd_preference", "any")
                row    == IF pref \in {"off_peak", "shoulder", "any"} THEN pref ELSE "any"
            IN  /\ ret.value[k].month_data.season =
                       CASE season = "peak"     -> "peak season"
                         [] season = "shoulder" -> "shoulder season"
                         [] season = "off"      -> "off season"
                /\ ret.value[k].scores.crowd =
                       CASE row = "off_peak" /\ season = "off"      -> 10000
                         [] row = "off_peak" /\ season = "shoulder" -> 5500
                         [] row = "off_peak" /\ season = "peak"     -> 500
                         [] row = "shoulder" /\ season = "off"      -> 7000
                         [] row = "shoulder" /\ season = "shoulder" -> 10000
                         [] row = "shoulder" /\ season = "peak"     -> 2500
                         [] row = "any"      /\ season = "off"      -> 8500
                         [] row = "any"      /\ season = "shoulder" -> 10000
                         [] row = "any"      /\ season = "peak"     -> 7500

\* January for a city that lists January both as peak and as shoulder month:
\* labelled peak, crowd score 0.05 for off_peak.
C14_Witness ==
    /\ pc = "returned" /\ call.fn = "rank_cities" /\ ret.raised = "none"
    /\ Get(call.preferences, "travel_month", 1) = 1
    /\ Get(call.preferences, "crowd_preference", "any") = "off_peak"
    /\ \E k \in DOMAIN ret.value :
           /\ InList(1, CITIES[ret.value[k].city].peak_months)
           /\ InList(1, CITIES[ret.value[k].city].shoulder_months)
           /\ ret.value[k].month_data.season = "peak season"
           /\ ret.value[k].scores.crowd = 500

(***************************************************************************)
(* Properties of the tool handler: execute_search and the formatter.       *)
(***************************************************************************)

\* C12: when the catalog is empty or the exclusion filter removes every
\* city, rank_cities returns an empty list without raising and the formatter
\* returns the one "No destinations matched" message, which contains the
\* name of the requested month and no candidate block; for a list that is
\* not empty the formatter never returns that message.
C12_EmptyResultMessage ==
    LET input   == IF call.fn = "rank_cities" THEN call.preferences ELSE call.tool_input
        terms   == Get(input, "exclude_regions", <<>>)
        Hit(c)  == \E i \in DOMAIN terms :
                       \/ InStr(lower(terms[i]), lower(Get(CITIES[c], "region", <<>>)))
                       \/ InStr(lower(terms[i]), lower(Get(CITIES[c], "country", <<>>)))
        allowed == {c \in DOMAIN CITIES : ~Hit(c)}
    IN  /\ (pc = "returned" /\ call.fn = "rank_cities" /\ allowed = {}) =>
               ret = [raised |-> "none", value |-> <<>>]
        /\ (pc = "returned" /\ call.fn = "execute_search" /\ ret.raised = "none") =>
               LET month == Get(input, "travel_month", call.current_month)
                   name  == MONTH_NAMES[IF month = 0 THEN 12 ELSE month]
                   text  == ret.value
                   said  == <<"N", "o", " ", "d", "e", "s", "t", "i", "n", "a",
                              "t", "i", "o", "n", "s", " ", "m", "a", "t", "c",
                              "h", "e", "d">>
               IN  IF allowed = {}
                   THEN /\ text = NoMatchPrefix \o name \o NoMatchSuffix
                        /\ InStr(said, text)
                        /\ InStr(name, text)
                        /\ ~InStr(<<"\n">>, text)
                        /\ ~InStr(<<"S", "c", "o", "r", "e">>, text)
                   ELSE /\ ~InStr(said, text)
                        /\ InStr(<<"S", "c", "o", "r", "e">>, text)

\* Two European cities, "EUROPE" excluded, January requested: the message
\* for January.
C12_Witness ==
    /\ pc = "returned" /\ call.fn = "execute_search" /\ ret.raised = "none"
    /\ CITIES = <<Oslo, Porto>>
    /\ Get(call.tool_input, "travel_month", 0) = 1
    /\ "exclude_regions" \in DOMAIN call.tool_input
    /\ InStr(<<"f", "o", "r", " ", "J", "a", "n", "u", "a", "r", "y", ".">>, ret.value)
    /\ Len(ret.value) = Len(NoMatchPrefix) + 7 + Len(NoMatchSuffix)

\* C13: rank_cities changes neither the catalog nor the preference record it
\* was given and keeps nothing between calls: whatever the other session
\* does meanwhile and whatever calls came before, a call that is over has
\* returned what rank_cities returns for its catalog and preferences when
\* called alone.
C13_NoSharedState ==
    /\ [][CITIES' = CITIES]_vars
    /\ [][\A c \in Callers :
            (frames[c].pc # "idle" /\ frames'[c].pc # "idle") =>
                frames'[c].preferences = frames[c].preferences]_vars
    /\ [](\A c \in Callers :
            frames[c].pc = "done" =>
                frames[c].ret = rank_cities(CITIES, frames[c].preferences, TopN))

\* One session has its two ranked cities while the other, asking with other
\* preferences, is between two passes of its loop.
C13_Witness ==
    /\ frames # NoFrames
    /\ frames["session_1"].pc = "done"
    /\ frames["session_1"].ret.raised = "none"
    /\ Len(frames["session_1"].ret.value) = 2
    /\ frames["session_2"].pc = "loop"
    /\ frames["session_2"].i = 2
    /\ Len(frames["session_2"].results) = 1
    /\ frames["session_2"].preferences # frames["session_1"].preferences

\* C15: a turn makes at most 6 model calls and always ends, whatever stop
\* reasons the model produces.  When run_agentic_turn returns, its reply is
\* the text of the first response that stopped with end_turn, which is then
\* the last response of the turn, or the iteration-limit message after 6
\* calls none of which stopped with end_turn.  Tools run only in the step
\* of a response that stopped with tool_use: for each of its tool_use
\* blocks in order when the turn goes on, for the blocks before the one
\* whose tool raised when it raised.
C15_TurnTerminates ==
    /\ [](turn.calls <= 6)
    /\ [](turn.pc = "loop" =>
            /\ turn.calls < 6
            /\ \A k \in DOMAIN turn.stops : turn.stops[k] # "end_turn")
    /\ [](LET n        == Len(turn.stops)
              returned == turn.pc = "prompt" /\ n > 0 /\ n = turn.calls
              last     == conversation[Len(conversation)]
          IN  returned =>
                IF \E k \in 1..n : turn.stops[k] = "end_turn"
                THEN /\ \A k \in 1..(n - 1) : turn.stops[k] # "end_turn"
                     /\ last.role = "assistant"
                     /\ turn.reply = TextOf(last.content.list)
                ELSE /\ n = 6
                     /\ turn.reply = IterationLimitReply)
    /\ [](LET n    == Len(turn.stops)
              last == conversation[Len(conversation)]
              ids(m) == LET uses == {j \in DOMAIN m.content.list :
                                         m.content.list[j].type = "tool_use"}
                            Nth(k) == CHOOSE j \in uses :
                                         Cardinality({i \in uses : i < j}) = k - 1
                        IN  [k \in 1..Cardinality(uses) |->
                                m.content.list[Nth(k)].id]
          IN  /\ turn.executed # <<>> => turn.stops[n] = "tool_use"
              /\ (n > 0 /\ n = turn.calls /\ turn.stops[n] = "tool_use") =>
                    IF turn.pc = "crashed"
                    THEN /\ last.role = "assistant"
                         /\ Len(turn.executed) < Len(ids(last))
                         /\ turn.executed =
                                SubSeq(ids(last), 1, Len(turn.executed))
                    ELSE /\ last.role = "user" /\ IsList(last.content)
                         /\ turn.executed =
                                ids(conversation[Len(conversation) - 1])
              /\ (n > 0 /\ n = turn.calls /\ turn.stops[n] # "tool_use") =>
                    /\ turn.executed = <<>>
                    /\ last.role = "assistant")
    /\ (turn.pc = "loop") ~> (turn.pc # "loop")

\* A turn of six calls, some stopped by max_tokens and some by tool_use,
\* that ended with the iteration-limit message.
C15_Witness ==
    /\ turn.pc = "prompt"
    /\ turn.calls = 6
    /\ Len(turn.stops) = 6
    /\ turn.reply = IterationLimitReply
    /\ \E k \in 1..6 : turn.stops[k] = "max_tokens"
    /\ \E k \in 1..6 : turn.stops[k] = "tool_use"
    /\ turn.executed # <<>>

\* C16: the history passed to the model at every call alternates user and
\* assistant messages, starting with a user message, and every assistant
\* message with tool_use blocks is followed at once by a user message that
\* holds exactly one tool_result for each of those blocks, with its id.
C16_HistoryWellFormed ==
    LET h             == turn.messages
        HasToolUse(m) == \E j \in DOMAIN m.content.list :
                             m.content.list[j].type = "tool_use"
        Answers(m, u) ==
            /\ IsList(u.content)
            /\ \A j \in DOMAIN u.content.list :
                   u.content.list[j].type = "tool_result"
            /\ Len(u.content.list) =
                   Cardinality({j \in DOMAIN m.content.list :
                                   m.content.list[j].type = "tool_use"})
            /\ \A j \in DOMAIN m.content.list :
                   m.content.list[j].type = "tool_use" =>
                       Cardinality({i \in DOMAIN u.content.list :
                                       u.content.list[i].tool_use_id =
                                           m.content.list[j].id}) = 1
    IN  turn.pc # "none" =>
          /\ \A k \in DOMAIN h :
                 h[k].role = (IF k % 2 = 1 THEN "user" ELSE "assistant")
          /\ \A k \in DOMAIN h :
                 (h[k].role = "assistant" /\ HasToolUse(h[k])) =>
                     /\ k < Len(h)
                     /\ h[k + 1].role = "user"
                     /\ Answers(h[k], h[k + 1])

====
